---- MODULE Spec2Model ----
(***************************************************************************)
(* git-profile: a store of named Git identity profiles                     *)
(* (~/.config/git-profiles/<name>.gitconfig), the global Git identity      *)
(* (git config --global user.name / user.email) and the snapshot of the    *)
(* last activated profile (~/.gitconfig-active), driven by the commands    *)
(* of src/git_profile_switcher/cli.py.                                     *)
(*                                                                         *)
(* Text is a sequence of one-character strings.  A file is the sequence of *)
(* the segments its text splits into at "\n" (a text that ends with a      *)
(* newline has a last, empty segment), so equality of two files is         *)
(* equality of their bytes.                                                *)
(*                                                                         *)
(* Environment: the file system and the git executable work (no write,     *)
(* copy or git failure), profile files are INI files whose option lines    *)
(* share one indentation, and one command runs at a time.                  *)
(***************************************************************************)
EXTENDS Integers, Sequences, FiniteSets, TLC

VARIABLES
    dirExists,  \* CONFIG_DIR exists
    dir,        \* CONFIG_DIR: file name -> file content
    active,     \* ACTIVE_CFG: <<>> when absent, <<content>> when present
    gitcfg,     \* git's global configuration: key -> value, for the keys that are set
    last,       \* what the last command was given and what it printed and returned
    cmds        \* number of commands run

vars == <<dirExists, dir, active, gitcfg, last, cmds>>

----------------------------------------------------------------------------
(* Characters and text                                                     *)

\* Code points of the characters that file names are made of.
Ord(c) ==
    CASE c = "-" -> 45 [] c = "." -> 46
      [] c = "a" -> 97 [] c = "b" -> 98 [] c = "c" -> 99 [] c = "f" -> 102
      [] c = "g" -> 103 [] c = "i" -> 105 [] c = "n" -> 110 [] c = "o" -> 111
      [] c = "t" -> 116

\* str.__lt__: lexicographic order by code point.
RECURSIVE StrLess(_, _)
StrLess(s, t) ==
    IF t = <<>> THEN FALSE
    ELSE IF s = <<>> THEN TRUE
    ELSE IF Head(s) = Head(t) THEN StrLess(Tail(s), Tail(t))
    ELSE Ord(Head(s)) < Ord(Head(t))

\* list.sort() of a set of distinct strings.
RECURSIVE SortStrs(_)
SortStrs(S) ==
    IF S = {} THEN <<>>
    ELSE LET m == CHOOSE x \in S : \A y \in S \ {x} : StrLess(x, y)
         IN  <<m>> \o SortStrs(S \ {m})

IsSpace(c) == c = " "

\* Index of the first character at or after i that is not whitespace (Len(s) + 1
\* when there is none), and of the last one at or before i (0 when there is none).
RECURSIVE FirstNonSpace(_, _)
FirstNonSpace(s, i) ==
    IF i > Len(s) \/ ~IsSpace(s[i]) THEN i ELSE FirstNonSpace(s, i + 1)

RECURSIVE LastNonSpace(_, _)
LastNonSpace(s, i) ==
    IF i < 1 \/ ~IsSpace(s[i]) THEN i ELSE LastNonSpace(s, i - 1)

\* str.lstrip(), str.rstrip(), str.strip()
Lstrip(s) == SubSeq(s, FirstNonSpace(s, 1), Len(s))
Rstrip(s) == SubSeq(s, 1, LastNonSpace(s, Len(s)))
Strip(s) == SubSeq(s, FirstNonSpace(s, 1), LastNonSpace(s, Len(s)))

\* Number of leading whitespace characters.
Indent(s) == FirstNonSpace(s, 1) - 1

EndsWith(s, suffix) ==
    /\ Len(s) >= Len(suffix)
    /\ SubSeq(s, Len(s) - Len(suffix) + 1, Len(s)) = suffix

\* Positions of the characters of s that are in the set cs.
Positions(s, cs) == {i \in 1..Len(s) : s[i] \in cs}

Min(S) == CHOOSE x \in S : \A y \in S : x <= y
Max(S) == CHOOSE x \in S : \A y \in S : y <= x

----------------------------------------------------------------------------
(* Paths                                                                   *)

Ext == <<".", "g", "i", "t", "c", "o", "n", "f", "i", "g">>

\* CONFIG_DIR, with HOME written "~".
CONFIG_DIR ==
    <<"~", "/", ".", "c", "o", "n", "f", "i", "g", "/",
      "g", "i", "t", "-", "p", "r", "o", "f", "i", "l", "e", "s">>

\* f"{name}.gitconfig"
FileName(name) == name \o Ext

\* os.path.join(CONFIG_DIR, f"{name}.gitconfig")
profile_path(name) == CONFIG_DIR \o <<"/">> \o FileName(name)

\* os.path.splitext(f)[0]: f up to its last dot, a leading dot not counting.
SplitextRoot(f) ==
    LET dots == {i \in Positions(f, {"."}) : i > 1}
    IN  IF dots = {} THEN f ELSE SubSeq(f, 1, Max(dots) - 1)

isfile(d, name) == FileName(name) \in DOMAIN d

----------------------------------------------------------------------------
(* configparser.ConfigParser(): read() and get()                           *)

\* An optional value: <<>> is None, <<v>> is the value v.
None == <<>>
Some(v) == <<v>>

\* `x or default` for an optional string x (None and "" are both falsy).
OrElse(x, default) == IF x = None \/ x[1] = <<>> THEN default ELSE x[1]

\* SECTCRE: a line "[header]".
IsSectionLine(value) ==
    /\ Len(value) >= 3
    /\ value[1] = "["
    /\ "]" \in {value[i] : i \in 3..Len(value)}

SectionOf(value) ==
    SubSeq(value, 2, Max({i \in 3..Len(value) : value[i] = "]"}) - 1)

Delimiters == {"=", ":"}

\* RawConfigParser._read over the lines of a file: the sections, the options
\* <<section, option, value>> and whether the file parsed (an option line before
\* the first section header, or one without a delimiter, raises).
RECURSIVE ReadLines(_, _, _)
ReadLines(segs, cursect, acc) ==
    IF segs = <<>> THEN acc
    ELSE
        LET value == Strip(Head(segs))
            delims == Positions(value, Delimiters)
        IN  IF value = <<>> THEN ReadLines(Tail(segs), cursect, acc)
            ELSE IF IsSectionLine(value) THEN
                ReadLines(Tail(segs), Some(SectionOf(value)),
                          [acc EXCEPT !.sections = @ \cup {SectionOf(value)}])
            ELSE IF cursect = None \/ delims = {} THEN [acc EXCEPT !.ok = FALSE]
            ELSE
                LET i == Min(delims)
                    optname == Rstrip(SubSeq(value, 1, i - 1))
                    optval == Strip(SubSeq(value, i + 1, Len(value)))
                IN  ReadLines(Tail(segs), cursect,
                              [acc EXCEPT !.options = @ \cup {<<cursect[1], optname, optval>>}])

\* cfg.read(profile_path)
read(content) == ReadLines(content, None, [ok |-> TRUE, sections |-> {}, options |-> {}])

\* BasicInterpolation._interpolate_some on a value without "(": "%%" gives "%",
\* any other "%" raises InterpolationSyntaxError.
RECURSIVE interpolate(_)
interpolate(v) ==
    IF v = <<>> THEN [ok |-> TRUE, val |-> <<>>]
    ELSE IF Head(v) # "%" THEN
        LET r == interpolate(Tail(v)) IN [r EXCEPT !.val = <<Head(v)>> \o @]
    ELSE IF Len(v) >= 2 /\ v[2] = "%" THEN
        LET r == interpolate(SubSeq(v, 3, Len(v))) IN [r EXCEPT !.val = <<"%">> \o @]
    ELSE [ok |-> FALSE, val |-> <<>>]

\* cfg.get(section, option, fallback=None): ok is FALSE when the call raises.
get(cfg, section, option) ==
    LET found == {o \in cfg.options : o[1] = section /\ o[2] = option}
    IN  IF found = {} THEN [ok |-> TRUE, val |-> None]
        ELSE LET r == interpolate((CHOOSE o \in found : TRUE)[3])
             IN  [ok |-> r.ok, val |-> IF r.ok THEN Some(r.val) ELSE None]

user == <<"u", "s", "e", "r">>
name_key == <<"n", "a", "m", "e">>
email_key == <<"e", "m", "a", "i", "l">>

----------------------------------------------------------------------------
(* git config --global                                                     *)

\* run_git_config(key): the stripped value, None when unset or empty.
run_git_config(g, key) ==
    IF key \notin DOMAIN g THEN None
    ELSE LET value == Strip(g[key]) IN IF value = <<>> THEN None ELSE Some(value)

\* git config --global <key> <value>
setGlobal(g, key, value) == [k \in DOMAIN g \cup {key} |-> IF k = key THEN value ELSE g[k]]

NoName == <<"(", "n", "o", " ", "n", "a", "m", "e", ")">>
NoEmail == <<"(", "n", "o", " ", "e", "m", "a", "i", "l", ")">>

----------------------------------------------------------------------------
(* The profile text written by create                                      *)

Spaces(n) == [i \in 1..n |-> " "]

default_name_fallback == <<"Y", "o", "u", "r", " ", "N", "a", "m", "e">>
default_email_fallback ==
    <<"y", "o", "u", "r", "_", "e", "m", "a", "i", "l", "@",
      "e", "x", "a", "m", "p", "l", "e", ".", "c", "o", "m">>
default_editor == <<"n", "a", "n", "o">>

\* The f-string of cmd_create, split at its newlines.
Template(user_name, user_email, editor) ==
    << <<>>,
       Spaces(8) \o <<"[", "u", "s", "e", "r", "]">>,
       Spaces(12) \o <<"n", "a", "m", "e", " ", "=", " ">> \o user_name,
       Spaces(12) \o <<"e", "m", "a", "i", "l", " ", "=", " ">> \o user_email,
       Spaces(8) \o <<"[", "c", "o", "r", "e", "]">>,
       Spaces(12) \o <<"e", "d", "i", "t", "o", "r", " ", "=", " ">> \o editor,
       Spaces(8) >>

\* A plausible slip: every line loses all of its indentation.
dedent_flat(segs) == [i \in 1..Len(segs) |-> Lstrip(segs[i])]

\* textwrap.dedent: blank lines become empty, the other lines lose the margin
\* they share (all indentation here is spaces, so the margin is the least indent).
dedent(segs) ==
    LET nonblank == {i \in 1..Len(segs) : Indent(segs[i]) < Len(segs[i])}
        margin == IF nonblank = {} THEN 0 ELSE Min({Indent(segs[i]) : i \in nonblank})
    IN  [i \in 1..Len(segs) |->
            IF i \in nonblank THEN SubSeq(segs[i], margin + 1, Len(segs[i])) ELSE <<>>]

\* str.lstrip("\n") on a text given by its segments: drop the leading empty ones
\* (the last segment is no line of its own and stays).
RECURSIVE lstrip_newlines(_)
lstrip_newlines(segs) ==
    IF Len(segs) >= 2 /\ Head(segs) = <<>> THEN lstrip_newlines(Tail(segs)) ELSE segs

\* input(...).strip() or default
Entered(answer, default) == IF Strip(answer) = <<>> THEN default ELSE Strip(answer)

profile_content(user_name, user_email, editor) ==
    lstrip_newlines(dedent(Template(user_name, user_email, editor)))

----------------------------------------------------------------------------
(* The inputs the commands are run with                                    *)

\* Profile names given on the command line.
ProfileNames == {<<"a">>, <<"a", "-", "b">>}

\* What is typed until create returns: a line at each of the three prompts (name,
\* email, editor), or fewer lines followed by Ctrl-C at the next prompt.
Bob == <<" ", "B", "o", "b">>
BobMail == <<"b", "@", "x", " ">>
Vi == <<"v", "i">>
PromptScripts ==
    { << <<>>, <<>>, <<>> >>,
      <<Bob, BobMail, Vi>>,
      << <<"5", "0", "%">>, BobMail, <<>> >>,
      << <<"a", "%", "%", "b">>, <<>>, Vi>>,
      <<>>,
      <<Bob>>,
      <<Bob, BobMail>> }

\* Profile files written by hand, as `init` suggests: a complete profile, a [user]
\* section with only a name, one with only an email, and a file without a [user]
\* section.
UserLine == <<"[", "u", "s", "e", "r", "]">>
NameLine == Spaces(4) \o <<"n", "a", "m", "e", " ", "=", " ", "5", "0", "%">>
EmailLine == Spaces(4) \o <<"e", "m", "a", "i", "l", " ", "=", " ", "a", "@", "x">>
CoreLine == <<"[", "c", "o", "r", "e", "]">>
EditorLine == Spaces(4) \o <<"e", "d", "i", "t", "o", "r", " ", "=", " ", "v", "i">>

CompleteFile == <<UserLine, NameLine, EmailLine, CoreLine, EditorLine, <<>> >>
NameOnlyFile == <<UserLine, NameLine, <<>> >>
EmailOnlyFile == <<UserLine, EmailLine, <<>> >>
CoreOnlyFile == <<CoreLine, EditorLine, <<>> >>
HandFiles == {CompleteFile, NameOnlyFile, EmailOnlyFile, CoreOnlyFile}

\* The global Git identity before the first command: none, or one set by hand.
InitGitConfigs ==
    { <<>>,
      [k \in {"user.name", "user.email"} |->
          IF k = "user.name" THEN <<"Z", "o", "e">> ELSE <<"z", "@", "x">>] }

\* Commands run after the first state.
MaxCmds == 2

----------------------------------------------------------------------------
(* The commands                                                            *)

\* The record kept of a command: its arguments, what was typed at its prompts,
\* what it found, printed and called, and its exit status.
NoCommand ==
    [cmd |-> "none", name |-> <<>>, force |-> FALSE, activate |-> FALSE,
     answers |-> <<>>, existed |-> FALSE, defaults |-> <<>>, saved |-> FALSE,
     exit |-> 0, err |-> "", setCalls |-> <<>>, uname |-> None, uemail |-> None,
     guess |-> <<>>, listing |-> <<>>, shown |-> <<>>]

\* list_profiles(): the *.gitconfig files of CONFIG_DIR, sorted by file name, each
\* without its extension.
list_profiles(d) ==
    LET files == SortStrs({f \in DOMAIN d : EndsWith(f, Ext)})
    IN  [i \in 1..Len(files) |-> SplitextRoot(files[i])]

\* What cmd_use returns with when it changes nothing.
use_failed(a, g, err) ==
    [exit |-> 1, err |-> err, gitcfg |-> g, active |-> a, setCalls |-> <<>>,
     uname |-> None, uemail |-> None]

\* cmd_use from the parsing of the profile on: the two values are read, each
\* non-empty one is set, the profile is copied to the snapshot and the identity
\* is read back.  An exception out of read() or get() ends the command.
use_profile(d, a, g, name) ==
    LET cfg == read(d[FileName(name)])
        has_user == user \in cfg.sections
        user_name == IF has_user THEN get(cfg, user, name_key)
                     ELSE [ok |-> TRUE, val |-> None]
        user_email == IF has_user /\ user_name.ok THEN get(cfg, user, email_key)
                      ELSE [ok |-> TRUE, val |-> None]
        set_name == user_name.val # None /\ user_name.val[1] # <<>>
        set_email == user_email.val # None /\ user_email.val[1] # <<>>
        g1 == IF set_name THEN setGlobal(g, "user.name", user_name.val[1]) ELSE g
        g2 == IF set_email THEN setGlobal(g1, "user.email", user_email.val[1]) ELSE g1
    IN  IF ~cfg.ok \/ ~user_name.ok \/ ~user_email.ok
        THEN use_failed(a, g, "Traceback")
        ELSE [exit |-> 0, err |-> "", gitcfg |-> g2,
              active |-> Some(d[FileName(name)]),
              setCalls |->
                  (IF set_name THEN << <<"user.name", user_name.val[1]>> >> ELSE <<>>)
                  \o (IF set_email THEN << <<"user.email", user_email.val[1]>> >>
                      ELSE <<>>),
              uname |-> Some(OrElse(run_git_config(g2, "user.name"), NoName)),
              uemail |-> Some(OrElse(run_git_config(g2, "user.email"), NoEmail))]

\* A plausible slip: no check that the profile file exists; configparser reads a
\* missing file as an empty one and the failing copy is swallowed.
use_unchecked(d, a, g, name) ==
    IF ~isfile(d, name)
    THEN [use_failed(a, g, "") EXCEPT !.exit = 0,
             !.uname = Some(OrElse(run_git_config(g, "user.name"), NoName)),
             !.uemail = Some(OrElse(run_git_config(g, "user.email"), NoEmail))]
    ELSE use_profile(d, a, g, name)

\* The effect of cmd_use(name) on the global identity and the snapshot, with what
\* it prints and returns.
use(d, a, g, name) ==
    IF ~isfile(d, name) THEN use_failed(a, g, "NotFound") ELSE use_profile(d, a, g, name)

\* The "Guessed active profile" line of cmd_current: the first listed profile
\* whose file equals the snapshot, or no line.
guess_active(d, a) ==
    IF a = None THEN <<>>
    ELSE LET profiles == list_profiles(d)
             hits == {i \in 1..Len(profiles) :
                         /\ isfile(d, profiles[i])
                         /\ d[FileName(profiles[i])] = a[1]}
         IN  IF hits = {} THEN <<>> ELSE <<profiles[Min(hits)]>>

\* One more command is run.
Tick == cmds < MaxCmds /\ cmds' = cmds + 1

cmd_init ==
    /\ Tick
    /\ dirExists' = TRUE
    /\ last' = [NoCommand EXCEPT !.cmd = "init"]
    /\ UNCHANGED <<dir, active, gitcfg>>

cmd_list ==
    /\ Tick
    /\ dirExists' = TRUE
    /\ last' = [NoCommand EXCEPT !.cmd = "list", !.listing = list_profiles(dir)]
    /\ UNCHANGED <<dir, active, gitcfg>>

cmd_use(name) ==
    \E r \in {use(dir, active, gitcfg, name)} :
        /\ Tick
        /\ dirExists' = TRUE
        /\ gitcfg' = r.gitcfg
        /\ active' = r.active
        /\ last' = [NoCommand EXCEPT !.cmd = "use", !.name = name,
                                     !.existed = isfile(dir, name), !.exit = r.exit,
                                     !.err = r.err, !.setCalls = r.setCalls,
                                     !.uname = r.uname, !.uemail = r.uemail]
        /\ UNCHANGED dir

cmd_current ==
    /\ Tick
    /\ dirExists' = TRUE
    /\ last' = [NoCommand EXCEPT
                   !.cmd = "current",
                   !.uname = Some(OrElse(run_git_config(gitcfg, "user.name"), NoName)),
                   !.uemail = Some(OrElse(run_git_config(gitcfg, "user.email"), NoEmail)),
                   !.guess = guess_active(dir, active)]
    /\ UNCHANGED <<dir, active, gitcfg>>

\* What cmd_show writes to standard output.
show_output(d, name) ==
    << <<"#", " ", "P", "r", "o", "f", "i", "l", "e", ":", " ">> \o name,
       <<"#", " ", "P", "a", "t", "h", ":", " ">> \o profile_path(name),
       <<>> >> \o d[FileName(name)]

cmd_show(name) ==
    /\ Tick
    /\ dirExists' = TRUE
    /\ last' = IF ~isfile(dir, name)
               THEN [NoCommand EXCEPT !.cmd = "show", !.name = name, !.exit = 1,
                                      !.err = "NotFound"]
               ELSE [NoCommand EXCEPT !.cmd = "show", !.name = name, !.existed = TRUE,
                                      !.shown = show_output(dir, name)]
    /\ UNCHANGED <<dir, active, gitcfg>>

\* A plausible slip: --force is not needed to overwrite.
refuses_always_overwriting(d, name, force) == FALSE

\* The check of cmd_create before it prompts: the profile exists and --force is
\* not given.
refuses(d, name, force) == isfile(d, name) /\ ~force

\* A plausible slip: Ctrl-C at a prompt is taken as an empty answer.
prompt_ignoring_interrupt(script, defaults) ==
    [interrupted |-> FALSE,
     fields |-> [i \in 1..3 |-> IF i <= Len(script) THEN Entered(script[i], defaults[i])
                                ELSE defaults[i]]]

\* The three input() calls of cmd_create: the field values, unless a
\* KeyboardInterrupt comes out of the prompt that follows the last typed line.
prompt(script, defaults) ==
    IF Len(script) < 3 THEN [interrupted |-> TRUE, fields |-> <<>>]
    ELSE [interrupted |-> FALSE,
          fields |-> [i \in 1..3 |-> Entered(script[i], defaults[i])]]

\* open(profile_path, "w").write(content): the file is created or replaced.
write(d, f, content) == [k \in DOMAIN d \cup {f} |-> IF k = f THEN content ELSE d[k]]

cmd_create(name, force, activate, script) ==
    LET defaults ==
            << OrElse(run_git_config(gitcfg, "user.name"), default_name_fallback),
               OrElse(run_git_config(gitcfg, "user.email"), default_email_fallback),
               default_editor >>
        this == [NoCommand EXCEPT !.cmd = "create", !.name = name, !.force = force,
                                  !.activate = activate, !.existed = isfile(dir, name)]
    IN  /\ Tick
        /\ dirExists' = TRUE
        /\ IF refuses(dir, name, force) THEN
               /\ last' = [this EXCEPT !.exit = 1, !.err = "AlreadyExists"]
               /\ UNCHANGED <<dir, active, gitcfg>>
           ELSE
               \E p \in {prompt(script, defaults)} :
                   LET prompted == [this EXCEPT !.answers = script, !.defaults = defaults]
                   IN  IF p.interrupted THEN
                           \* KeyboardInterrupt, caught in main
                           /\ last' = [prompted EXCEPT !.exit = 1, !.err = "Interrupted"]
                           /\ UNCHANGED <<dir, active, gitcfg>>
                       ELSE
                           \E written \in
                               {write(dir, FileName(name),
                                      profile_content(p.fields[1], p.fields[2],
                                                      p.fields[3]))} :
                               /\ dir' = written
                               /\ IF activate THEN
                                      \E r \in {use(written, active, gitcfg, name)} :
                                          /\ gitcfg' = r.gitcfg
                                          /\ active' = r.active
                                          /\ last' = [prompted EXCEPT
                                                         !.saved = TRUE,
                                                         !.exit = r.exit, !.err = r.err,
                                                         !.setCalls = r.setCalls,
                                                         !.uname = r.uname,
                                                         !.uemail = r.uemail]
                                  ELSE
                                      /\ last' = [prompted EXCEPT !.saved = TRUE]
                                      /\ UNCHANGED <<active, gitcfg>>

----------------------------------------------------------------------------
(* The specification                                                       *)

\* A machine on which some profiles were written by hand and no profile was
\* activated yet.
Init ==
    /\ dirExists \in BOOLEAN
    /\ dir \in UNION {[{FileName(n) : n \in S} -> HandFiles] :
                        S \in IF dirExists THEN SUBSET ProfileNames ELSE {{}}}
    /\ active = None
    /\ gitcfg \in InitGitConfigs
    /\ last = NoCommand
    /\ cmds = 0

\* What is typed to `create name`: nothing when it returns before its first prompt.
Typed(name, force) == IF refuses(dir, name, force) THEN {<<>>} ELSE PromptScripts

Next ==
    \/ cmd_init
    \/ cmd_list
    \/ \E name \in ProfileNames : cmd_use(name)
    \/ cmd_current
    \/ \E name \in ProfileNames : cmd_show(name)
    \/ \E name \in ProfileNames, force \in BOOLEAN, activate \in BOOLEAN :
          \E script \in Typed(name, force) : cmd_create(name, force, activate, script)

Spec == Init /\ [][Next]_vars

----------------------------------------------------------------------------
(* What the claims speak of                                                *)

\* This step runs the command c.
Step(c) == cmds' = cmds + 1 /\ last'.cmd = c

\* The profiles in the store.
Stored(d) == {n \in ProfileNames : isfile(d, n)}

\* The text a profile file holds for an option of its [user] section: the set of
\* the texts written after "option =" (empty when the file has no such line).
Holds(content, option) ==
    {o[3] : o \in {q \in read(content).options : q[1] = user /\ q[2] = option}}

\* The value of a field of create: the typed line without the surrounding
\* blanks, or the default shown in the prompt when nothing was typed.
FieldValue(c, i) ==
    IF Strip(c.answers[i]) = <<>> THEN c.defaults[i] ELSE Strip(c.answers[i])

\* The fixed layout of a profile: [user] with name and email, [core] with editor.
FixedLayout(user_name, user_email, editor) ==
    << <<"[", "u", "s", "e", "r", "]">>,
       <<" ", " ", " ", " ", "n", "a", "m", "e", " ", "=", " ">> \o user_name,
       <<" ", " ", " ", " ", "e", "m", "a", "i", "l", " ", "=", " ">> \o user_email,
       <<"[", "c", "o", "r", "e", "]">>,
       <<" ", " ", " ", " ", "e", "d", "i", "t", "o", "r", " ", "=", " ">> \o editor,
       <<>> >>

\* The profile that a completed create is to have written.
Expected(c) == FixedLayout(FieldValue(c, 1), FieldValue(c, 2), FieldValue(c, 3))

\* The global value of a key is the same before and after the step.
KeyUnchanged(k) ==
    /\ k \in DOMAIN gitcfg' <=> k \in DOMAIN gitcfg
    /\ k \in DOMAIN gitcfg => gitcfg'[k] = gitcfg[k]

\* C1: `use <name>` on a name that has no profile file exits non-zero, makes no
\* setGlobal call and leaves the global identity and the snapshot as they were.
C1_UseMissingChangesNothing ==
    [][(Step("use") /\ ~isfile(dir, last'.name))
        => /\ last'.exit # 0
           /\ last'.setCalls = <<>>
           /\ gitcfg' = gitcfg
           /\ active' = active]_vars

\* C1 happens: a use of a missing profile after another profile was activated.
C1_Witness ==
    /\ last.cmd = "use"
    /\ ~last.existed
    /\ last.exit = 1
    /\ "user.email" \in DOMAIN gitcfg
    /\ active # None

\* C2: after `use <name>` on a stored profile that holds user.name = N and
\* user.email = E, a `current` that follows reports N and E.
C2_UseThenCurrentReportsProfile ==
    [][(/\ Step("current")
        /\ last.cmd = "use"
        /\ last.existed
        /\ Holds(dir[FileName(last.name)], name_key) # {}
        /\ Holds(dir[FileName(last.name)], email_key) # {})
        => /\ last'.uname \in {Some(n) : n \in Holds(dir[FileName(last.name)], name_key)}
           /\ last'.uemail \in {Some(e) : e \in Holds(dir[FileName(last.name)], email_key)}
      ]_vars

\* C3: after `use <p>` on an existing profile p whose content no other stored
\* profile shares, a `current` that follows prints p as the guessed profile.
C3_UseThenCurrentGuessesProfile ==
    [][(/\ Step("current")
        /\ last.cmd = "use"
        /\ last.existed
        /\ \A m \in Stored(dir) \ {last.name} :
               dir[FileName(m)] # dir[FileName(last.name)])
        => last'.guess = <<last.name>>]_vars

\* C4: `create <x>` on an existing profile without --force fails with
\* AlreadyExists before any prompt and leaves the store as it was; with --force,
\* once the three fields are entered, the profile is saved with the entered fields
\* as its content (and the command succeeds when no activation follows).
C4_CreateExisting ==
    [][(Step("create") /\ isfile(dir, last'.name))
        => IF ~last'.force
           THEN /\ last'.exit # 0
                /\ last'.err = "AlreadyExists"
                /\ last'.defaults = <<>>
                /\ last'.answers = <<>>
                /\ dir' = dir
           ELSE Len(last'.answers) = 3
                => /\ last'.saved
                   /\ ~last'.activate => last'.exit = 0
                   /\ dir' = [dir EXCEPT ![FileName(last'.name)] = Expected(last')]
      ]_vars

\* C4 happens: an existing hand-written profile was overwritten with --force.
C4_Witness ==
    /\ last.cmd = "create"
    /\ last.existed
    /\ last.force
    /\ last.saved
    /\ last.exit = 0
    /\ dir[FileName(last.name)] \notin HandFiles

\* C5: `list` returns exactly the names of the stored profiles, in
\* lexicographically sorted order (nothing for an empty store).
C5_ListSortedNames ==
    last.cmd = "list"
    => /\ last.exit = 0
       /\ {last.listing[i] : i \in 1..Len(last.listing)} = Stored(dir)
       /\ Len(last.listing) = Cardinality(Stored(dir))
       /\ \A i \in 1..Len(last.listing) - 1 :
              StrLess(last.listing[i], last.listing[i + 1])

\* C6: a successful create followed by show of the same name emits the three
\* field values (a typed value, or the default for an empty entry) in the fixed
\* layout.
C6_CreateThenShow ==
    [][(/\ Step("show")
        /\ last.cmd = "create"
        /\ last.saved
        /\ last.exit = 0
        /\ last'.name = last.name)
        => /\ last'.exit = 0
           /\ Len(last'.shown) > 3
           /\ SubSeq(last'.shown, 4, Len(last'.shown)) = Expected(last)]_vars

\* C6 happens: a profile created from typed values is shown.
C6_Witness ==
    /\ cmds = 2
    /\ last.cmd = "show"
    /\ Len(last.shown) > 3
    /\ SubSeq(last.shown, 4, Len(last.shown))
           = FixedLayout(<<"B", "o", "b">>, <<"b", "@", "x">>, <<"v", "i">>)

\* C7: a `create <x> --activate` that succeeds leaves the global user.name and
\* user.email equal to the values stored in x and the snapshot equal to x's file;
\* without --activate, create changes neither the identity nor the snapshot.
C7_CreateActivate ==
    [][(Step("create") /\ last'.saved /\ last'.exit = 0)
        => IF last'.activate
           THEN /\ DOMAIN gitcfg' = {"user.name", "user.email"}
                /\ gitcfg'["user.name"] = FieldValue(last', 1)
                /\ gitcfg'["user.email"] = FieldValue(last', 2)
                /\ active' = Some(dir'[FileName(last'.name)])
           ELSE gitcfg' = gitcfg /\ active' = active]_vars

\* C8: `current` succeeds and reports at most one profile: with a snapshot, the
\* first profile in sorted name order whose file equals the snapshot, and none
\* when there is no snapshot or no profile matches.
C8_GuessFirstInNameOrder ==
    last.cmd = "current"
    => /\ last.exit = 0
       /\ LET matches == IF active = None THEN {}
                         ELSE {n \in Stored(dir) : dir[FileName(n)] = active[1]}
          IN  IF matches = {} THEN last.guess = <<>>
              ELSE /\ Len(last.guess) = 1
                   /\ last.guess[1] \in matches
                   /\ \A m \in matches \ {last.guess[1]} : StrLess(last.guess[1], m)

\* C9: `use <name>` on a profile that lacks user.name or user.email succeeds,
\* takes the snapshot, and leaves the global value of each missing key as it was.
C9_UseSetsOnlyDefinedKeys ==
    [][(/\ Step("use")
        /\ isfile(dir, last'.name)
        /\ \/ Holds(dir[FileName(last'.name)], name_key) = {}
           \/ Holds(dir[FileName(last'.name)], email_key) = {})
        => /\ last'.exit = 0
           /\ active' = Some(dir[FileName(last'.name)])
           /\ Holds(dir[FileName(last'.name)], name_key) = {}
              => /\ KeyUnchanged("user.name")
                 /\ \A i \in 1..Len(last'.setCalls) : last'.setCalls[i][1] # "user.name"
           /\ Holds(dir[FileName(last'.name)], email_key) = {}
              => /\ KeyUnchanged("user.email")
                 /\ \A i \in 1..Len(last'.setCalls) : last'.setCalls[i][1] # "user.email"
      ]_vars

\* C10: a Ctrl-C while create prompts (fewer than three lines were typed) makes it
\* exit with status 1 and changes nothing: no profile is written or overwritten
\* and no use is run, whatever --force and --activate say.
C10_InterruptedCreateChangesNothing ==
    [][(Step("create") /\ last'.defaults # <<>> /\ Len(last'.answers) < 3)
        => /\ last'.exit = 1
           /\ ~last'.saved
           /\ last'.setCalls = <<>>
           /\ dir' = dir
           /\ gitcfg' = gitcfg
           /\ active' = active]_vars

\* C10 happens: Ctrl-C at the third prompt of `create --force --activate` on an
\* existing profile.
C10_Witness ==
    /\ last.cmd = "create"
    /\ last.err = "Interrupted"
    /\ last.existed
    /\ last.force
    /\ last.activate
    /\ Len(last.answers) = 2
    /\ dir[FileName(last.name)] \in HandFiles

====
